---- MODULE Spec2Model ----
(***************************************************************************)
(* Sink request pipeline of ResuBaka/vector:                               *)
(*   src/src/sinks/util/service.rs              request config, settings   *)
(*                                              and the tower stacks       *)
(*   src/src/sinks/util/service/concurrency.rs  the Concurrency option     *)
(*   src/lib/vector-core/src/event/metadata.rs  EventMetadata              *)
(*                                                                         *)
(* Three specifications share the variables:                               *)
(*   SpecConfig  a config document is parsed, resolved against a default   *)
(*               config, serialized and parsed again;                      *)
(*   Spec        a stack is assembled from resolved settings and requests  *)
(*               travel through it;                                        *)
(*   SpecMeta    operations on one EventMetadata.                          *)
(*                                                                         *)
(* Numbers: TLC's integers are 32 bits wide, so i64::max_value() and       *)
(* isize::max_value() are represented by the largest TLC integer. No       *)
(* arithmetic is done on them. usize is taken to be 64 bits wide, so the   *)
(* casts `value as usize` of a positive i64 or u64 keep the value.         *)
(***************************************************************************)
EXTENDS Integers, Sequences, FiniteSets, TLC

VARIABLES
    \* ---- configuration (SpecConfig) ----
    doc,        \* the per-sink config document: key -> token
    defaults,   \* the caller-supplied default TowerRequestConfig
    parsed,     \* Result<TowerRequestConfig>: [ok, cfg]
    effective,  \* value last returned by TowerRequestConfig::concurrency
    warnings,   \* number of rename warnings emitted so far
    settings,   \* TowerRequestSettings produced by unwrap_with
    ser,        \* the serialized form of the parsed config: key -> token
    reparsed,   \* Result of parsing `ser`
    cpc,        \* position of the configuration run
    \* ---- request stack (Spec) ----
    builder,    \* "none", "service" or "layer": which function built the stack
    stack,      \* layers of the built service, outermost first
    req,        \* per request: its position in the stack
    rate,       \* RateLimit state: requests left in the current window
    permits,    \* permits handed out by the concurrency limiter
    limit,      \* current limit of the concurrency limiter
    observed,   \* number of responses the limiter has seen
    \* ---- event metadata (SpecMeta) ----
    meta,       \* the EventMetadata: [datadog_api_key, finalizers]
    keyOrder,   \* api keys of self and of the metadata merged in, in order
    lastOp,     \* the last operation, its argument and the state before it
    statuses    \* per finalizer created so far, the statuses it received

cfgVars  == <<doc, defaults, parsed, effective, warnings, settings, ser, reparsed, cpc>>
svcVars  == <<builder, stack, req, rate, permits, limit, observed>>
metaVars == <<meta, keyOrder, lastOp, statuses>>
vars     == <<doc, defaults, parsed, effective, warnings, settings, ser, reparsed, cpc,
              builder, stack, req, rate, permits, limit, observed,
              meta, keyOrder, lastOp, statuses>>

(***************************************************************************)
(* Bounds of the model                                                     *)
(***************************************************************************)
\* at most this many keys are present in the per-sink document
MaxKeys == 2
\* number of requests submitted to a built stack
MaxRequests == 2
\* number of operations applied to the metadata
MaxOps == 4

(***************************************************************************)
(* Option<T>: None is the empty sequence, Some(v) the one-element sequence *)
(***************************************************************************)
None == <<>>
Some(v) == <<v>>
OptOr(a, b) == IF a # None THEN a ELSE b
UnwrapOr(a, d) == IF a # None THEN a[1] ELSE d

(***************************************************************************)
(* concurrency.rs: enum Concurrency { None, Adaptive, Fixed(usize) }       *)
(***************************************************************************)
ConcurrencyNone == [tag |-> "None", n |-> 0]
Adaptive == [tag |-> "Adaptive", n |-> 0]
Fixed(n) == [tag |-> "Fixed", n |-> n]

\* impl Default for Concurrency
ConcurrencyDefault == ConcurrencyNone

\* impl ConcurrencyOption for Concurrency
is_none(c) == c.tag = "None"
is_some(c) == ~is_none(c)

\* a variant of if_none in which the other value wins whenever it is set
if_none_other_wins(self, other) == IF other.tag = "None" THEN self ELSE other

\* Concurrency::if_none
if_none(self, other) == IF self.tag = "None" THEN other ELSE self

\* Concurrency::parse_concurrency
parse_concurrency(self, default) ==
    LET c == if_none(self, default) IN
    CASE c.tag = "None" -> Some(1024)
      [] c.tag = "Adaptive" -> None
      [] c.tag = "Fixed" -> Some(c.n)

(***************************************************************************)
(* Tokens of a config document, as the format's deserializer hands them to *)
(* a visitor: a signed or unsigned integer, a string, an enum variant with *)
(* one value (only produced by the derived Serialize), or nothing.         *)
(***************************************************************************)
Absent == [t |-> "absent", v |-> 0, s |-> ""]
I64(v) == [t |-> "i64", v |-> v, s |-> ""]
U64(v) == [t |-> "u64", v |-> v, s |-> ""]
Str(s) == [t |-> "str", v |-> 0, s |-> s]
Variant(s, v) == [t |-> "variant", v |-> v, s |-> s]

Ok(x) == [ok |-> TRUE, val |-> x]
ErrOf(x) == [ok |-> FALSE, val |-> x]

\* `value as usize` on a 64-bit target, for the values the visitors pass
AsUsize(value) == value

\* UsizeOrAdaptive::visit_str
visit_str(value) ==
    IF value = "adaptive" THEN Ok(Adaptive) ELSE ErrOf(ConcurrencyNone)

\* a variant of visit_i64 that only rejects negative values
visit_i64_accepts_zero(value) ==
    IF value >= 0 THEN Ok(Fixed(AsUsize(value))) ELSE ErrOf(ConcurrencyNone)

\* UsizeOrAdaptive::visit_i64
visit_i64(value) ==
    IF value > 0 THEN Ok(Fixed(AsUsize(value))) ELSE ErrOf(ConcurrencyNone)

\* UsizeOrAdaptive::visit_u64
visit_u64(value) ==
    IF value > 0 THEN Ok(Fixed(AsUsize(value))) ELSE ErrOf(ConcurrencyNone)

\* Concurrency::deserialize: deserialize_any dispatches on the token; the
\* visitor implements no other visit_* method, so any other token is an error
DeserializeConcurrency(tok) ==
    CASE tok.t = "str" -> visit_str(tok.s)
      [] tok.t = "i64" -> visit_i64(tok.v)
      [] tok.t = "u64" -> visit_u64(tok.v)
      [] OTHER -> ErrOf(ConcurrencyNone)

\* #[serde(default)] on the two Concurrency fields: an absent key is default()
DeserializeConcurrencyField(tok) ==
    IF tok.t = "absent" THEN Ok(ConcurrencyDefault) ELSE DeserializeConcurrency(tok)

\* Option<u64> / Option<usize> fields: absent is None, a non-negative integer
\* is Some, anything else is a type error
DeserializeOptU64(tok) ==
    CASE tok.t = "absent" -> Ok(None)
      [] tok.t \in {"i64", "u64"} /\ tok.v >= 0 -> Ok(Some(tok.v))
      [] OTHER -> ErrOf(None)

\* #[derive(Serialize)] on enum Concurrency: a unit variant is written as
\* its name, a newtype variant as the variant name holding its value
SerializeConcurrency(c) ==
    CASE c.tag = "None" -> Str("None")
      [] c.tag = "Adaptive" -> Str("Adaptive")
      [] c.tag = "Fixed" -> Variant("Fixed", c.n)

\* #[serde(skip_serializing_if = "ConcurrencyOption::is_none")]
SerializeConcurrencyField(c) ==
    IF is_none(c) THEN Absent ELSE SerializeConcurrency(c)

\* Option<u64> fields: None writes nothing, Some(v) writes the integer
SerializeOptU64(o) ==
    IF o = None THEN Absent ELSE I64(o[1])

(***************************************************************************)
(* service.rs: TowerRequestConfig                                          *)
(***************************************************************************)
ConcKeys == {"concurrency", "in_flight_limit"}
NumKeys == {"timeout_secs", "rate_limit_duration_secs", "rate_limit_num",
            "retry_attempts", "retry_max_duration_secs",
            "retry_initial_backoff_secs"}
Keys == ConcKeys \cup NumKeys

TIMEOUT_SECONDS_DEFAULT == 60
RATE_LIMIT_DURATION_SECONDS_DEFAULT == 1
I64_MAX == 2147483647
ISIZE_MAX == 2147483647
RATE_LIMIT_NUM_DEFAULT == I64_MAX
RETRY_ATTEMPTS_DEFAULT == ISIZE_MAX
RETRY_MAX_DURATION_SECONDS_DEFAULT == 3600
RETRY_INITIAL_BACKOFF_SECONDS_DEFAULT == 1

\* every field unset: what parsing the empty document gives
EmptyConfig ==
    [concurrency |-> ConcurrencyDefault,
     in_flight_limit |-> ConcurrencyDefault,
     timeout_secs |-> None,
     rate_limit_duration_secs |-> None,
     rate_limit_num |-> None,
     retry_attempts |-> None,
     retry_max_duration_secs |-> None,
     retry_initial_backoff_secs |-> None]

\* impl Default for TowerRequestConfig
TowerRequestConfigDefault ==
    [concurrency |-> ConcurrencyDefault,
     in_flight_limit |-> ConcurrencyDefault,
     timeout_secs |-> Some(TIMEOUT_SECONDS_DEFAULT),
     rate_limit_duration_secs |-> Some(RATE_LIMIT_DURATION_SECONDS_DEFAULT),
     rate_limit_num |-> Some(RATE_LIMIT_NUM_DEFAULT),
     retry_attempts |-> Some(RETRY_ATTEMPTS_DEFAULT),
     retry_max_duration_secs |-> Some(RETRY_MAX_DURATION_SECONDS_DEFAULT),
     retry_initial_backoff_secs |-> Some(RETRY_INITIAL_BACKOFF_SECONDS_DEFAULT)]

\* #[derive(Deserialize)] on TowerRequestConfig: every field is parsed with
\* its own deserializer and one failing field fails the whole config
DeserializeConfig(d) ==
    LET f == [k \in Keys |->
                IF k \in ConcKeys THEN DeserializeConcurrencyField(d[k])
                ELSE DeserializeOptU64(d[k])]
    IN IF \A k \in Keys : f[k].ok
       THEN Ok([k \in Keys |-> f[k].val])
       ELSE ErrOf(EmptyConfig)

\* #[derive(Serialize)] on TowerRequestConfig
SerializeConfig(c) ==
    [k \in Keys |->
        IF k \in ConcKeys THEN SerializeConcurrencyField(c[k])
        ELSE SerializeOptU64(c[k])]

\* a variant of TowerRequestConfig::concurrency in which the legacy key wins
concurrency_legacy_wins(self) ==
    IF is_some(self.in_flight_limit)
    THEN [value |-> self.in_flight_limit, warn |-> is_some(self.concurrency)]
    ELSE [value |-> self.concurrency, warn |-> FALSE]

\* TowerRequestConfig::concurrency: the value returned and whether
\* the warn! of the (true, true) arm ran
concurrency(self) ==
    CASE ~is_some(self.in_flight_limit) ->
            [value |-> self.concurrency, warn |-> FALSE]
      [] ~is_some(self.concurrency) /\ is_some(self.in_flight_limit) ->
            [value |-> self.in_flight_limit, warn |-> FALSE]
      [] is_some(self.concurrency) /\ is_some(self.in_flight_limit) ->
            [value |-> self.concurrency, warn |-> TRUE]

\* Duration::from_secs
from_secs(s) == [secs |-> s, nanos |-> 0]

\* a variant of the field resolution that asks the default config first
ResolveDefaultsFirst(self, dflt, field, hard) ==
    UnwrapOr(OptOr(dflt[field], self[field]), hard)

\* self.<field>.or(defaults.<field>).unwrap_or(<DEFAULT>)
Resolve(self, dflt, field, hard) ==
    UnwrapOr(OptOr(self[field], dflt[field]), hard)

\* TowerRequestConfig::unwrap_with
unwrap_with(self, dflt) ==
    [concurrency |->
        parse_concurrency(concurrency(self).value, concurrency(dflt).value),
     timeout |->
        from_secs(Resolve(self, dflt, "timeout_secs", TIMEOUT_SECONDS_DEFAULT)),
     rate_limit_duration |->
        from_secs(Resolve(self, dflt, "rate_limit_duration_secs",
                          RATE_LIMIT_DURATION_SECONDS_DEFAULT)),
     rate_limit_num |->
        Resolve(self, dflt, "rate_limit_num", RATE_LIMIT_NUM_DEFAULT),
     retry_attempts |->
        Resolve(self, dflt, "retry_attempts", RETRY_ATTEMPTS_DEFAULT),
     retry_max_duration_secs |->
        from_secs(Resolve(self, dflt, "retry_max_duration_secs",
                          RETRY_MAX_DURATION_SECONDS_DEFAULT)),
     retry_initial_backoff_secs |->
        from_secs(Resolve(self, dflt, "retry_initial_backoff_secs",
                          RETRY_INITIAL_BACKOFF_SECONDS_DEFAULT))]

NoSettings == unwrap_with(EmptyConfig, EmptyConfig)
(***************************************************************************)
(* Inputs of the configuration run                                         *)
(***************************************************************************)
ConcTokens == {I64(-9), I64(0), I64(10), U64(0), U64(1024),
               Str("adaptive"), Str("broken")}
NumTokens == {I64(-1), I64(0), I64(2)}
TokensFor(k) == IF k \in ConcKeys THEN ConcTokens ELSE NumTokens

\* documents that set at most MaxKeys keys
Documents ==
    UNION { { [k \in Keys |-> IF k \in ks THEN f[k] ELSE Absent] :
                f \in { g \in [ks -> ConcTokens \cup NumTokens] :
                            \A k \in ks : g[k] \in TokensFor(k) } } :
            ks \in { s \in SUBSET Keys : Cardinality(s) <= MaxKeys } }

\* default configs a sink passes to unwrap_with: nothing set, Default::default(),
\* and each of the two with one field overridden
DefaultBases == {EmptyConfig, TowerRequestConfigDefault}
DefaultConfigs ==
    DefaultBases
    \cup { [base EXCEPT !.concurrency = v] :
             base \in DefaultBases, v \in {Adaptive, Fixed(2)} }
    \cup { [base EXCEPT !.in_flight_limit = v] :
             base \in DefaultBases, v \in {Adaptive, Fixed(3)} }
    \cup { [base EXCEPT ![k] = Some(3)] :
             base \in DefaultBases, k \in NumKeys }

NoDoc == [k \in Keys |-> Absent]

(***************************************************************************)
(* Idle values of the parts a specification does not run                   *)
(***************************************************************************)
CfgIdle ==
    /\ doc = NoDoc
    /\ defaults = EmptyConfig
    /\ parsed = ErrOf(EmptyConfig)
    /\ effective = ConcurrencyNone
    /\ warnings = 0
    /\ settings = NoSettings
    /\ ser = NoDoc
    /\ reparsed = ErrOf(EmptyConfig)
    /\ cpc = "idle"

SvcIdle ==
    /\ builder = "none"
    /\ stack = <<>>
    /\ req = <<>>
    /\ rate = 0
    /\ permits = 0
    /\ limit = 0
    /\ observed = 0

\* no operation has been applied to the metadata yet
NoOp ==
    [op |-> "none", before |-> None, other |-> None, n |-> 0,
     status |-> "", fins |-> <<>>, sts |-> <<>>]

MetaIdle ==
    /\ meta = [datadog_api_key |-> None, finalizers |-> <<>>]
    /\ keyOrder = <<>>
    /\ lastOp = NoOp
    /\ statuses = <<>>

(***************************************************************************)
(* SpecConfig: parse the document, then query, resolve or serialize it     *)
(***************************************************************************)
InitConfig ==
    /\ doc \in Documents
    /\ defaults \in DefaultConfigs
    /\ parsed = ErrOf(EmptyConfig)
    /\ effective = ConcurrencyNone
    /\ warnings = 0
    /\ settings = NoSettings
    /\ ser = NoDoc
    /\ reparsed = ErrOf(EmptyConfig)
    /\ cpc = "start"
    /\ SvcIdle
    /\ MetaIdle

\* toml::from_str::<TowerRequestConfig>(doc)
Deserialize ==
    /\ cpc = "start"
    /\ parsed' = DeserializeConfig(doc)
    /\ cpc' = "parsed"
    /\ UNCHANGED <<doc, defaults, effective, warnings, settings, ser, reparsed>>
    /\ UNCHANGED <<svcVars, metaVars>>

\* cfg.concurrency()
CallConcurrency ==
    /\ cpc = "parsed"
    /\ parsed.ok
    /\ effective' = concurrency(parsed.val).value
    /\ warnings' = warnings + (IF concurrency(parsed.val).warn THEN 1 ELSE 0)
    /\ cpc' = "queried"
    /\ UNCHANGED <<doc, defaults, parsed, settings, ser, reparsed>>
    /\ UNCHANGED <<svcVars, metaVars>>

\* cfg.unwrap_with(&defaults): calls self.concurrency(), then
\* defaults.concurrency()
UnwrapWith ==
    /\ cpc = "parsed"
    /\ parsed.ok
    /\ settings' = unwrap_with(parsed.val, defaults)
    /\ effective' = concurrency(defaults).value
    /\ warnings' = warnings + (IF concurrency(parsed.val).warn THEN 1 ELSE 0)
                            + (IF concurrency(defaults).warn THEN 1 ELSE 0)
    /\ cpc' = "resolved"
    /\ UNCHANGED <<doc, defaults, parsed, ser, reparsed>>
    /\ UNCHANGED <<svcVars, metaVars>>

\* toml::to_string(&cfg)
Serialize ==
    /\ cpc = "parsed"
    /\ parsed.ok
    /\ ser' = SerializeConfig(parsed.val)
    /\ cpc' = "serialized"
    /\ UNCHANGED <<doc, defaults, parsed, effective, warnings, settings, reparsed>>
    /\ UNCHANGED <<svcVars, metaVars>>

\* toml::from_str::<TowerRequestConfig>(&toml) on the serialized config
Reparse ==
    /\ cpc = "serialized"
    /\ reparsed' = DeserializeConfig(ser)
    /\ cpc' = "reparsed"
    /\ UNCHANGED <<doc, defaults, parsed, effective, warnings, settings, ser>>
    /\ UNCHANGED <<svcVars, metaVars>>

NextConfig ==
    \/ Deserialize
    \/ CallConcurrency
    \/ UnwrapWith
    \/ Serialize
    \/ Reparse

SpecConfig == InitConfig /\ [][NextConfig]_vars
(***************************************************************************)
(* service.rs: the stacks. A ServiceBuilder collects layers in call order; *)
(* the layer added first is the outermost of the built service. A layer is *)
(* [kind, n, adaptive]: n is the limit of a concurrency limiter (0 when it *)
(* is adaptive), the request number of RateLimit, the attempts of Retry,   *)
(* the seconds of Timeout.                                                 *)
(***************************************************************************)
ServiceBuilderNew == <<>>
AddLayer(b, l) == Append(b, l)

RateLimitLayer(num) == [kind |-> "RateLimit", n |-> num, adaptive |-> FALSE]
RetryLayer(attempts) == [kind |-> "Retry", n |-> attempts, adaptive |-> FALSE]
TimeoutLayer(d) == [kind |-> "Timeout", n |-> d.secs, adaptive |-> FALSE]
\* tower's ConcurrencyLimit: a semaphore of `max` permits
ConcurrencyLimitLayer(max) ==
    [kind |-> "ConcurrencyLimit", n |-> max, adaptive |-> FALSE]
\* AdaptiveConcurrencyLimitLayer::new(concurrency, ..): Some(n) is a fixed
\* limit of n, None hands the limit to the controller
AdaptiveConcurrencyLimitLayer(c) ==
    [kind |-> "AdaptiveConcurrencyLimit", n |-> UnwrapOr(c, 0),
     adaptive |-> (c = None)]

\* TowerRequestSettings::service
service(self) ==
    AddLayer(AddLayer(AddLayer(AddLayer(ServiceBuilderNew,
        RateLimitLayer(self.rate_limit_num)),
        RetryLayer(self.retry_attempts)),
        AdaptiveConcurrencyLimitLayer(self.concurrency)),
        TimeoutLayer(self.timeout))

\* TowerRequestLayer::layer
layer(self) ==
    AddLayer(AddLayer(AddLayer(AddLayer(ServiceBuilderNew,
        ConcurrencyLimitLayer(UnwrapOr(self.concurrency, 5))),
        RateLimitLayer(self.rate_limit_num)),
        RetryLayer(self.retry_attempts)),
        TimeoutLayer(self.timeout))

Kinds(st) == [i \in DOMAIN st |-> st[i].kind]
IndexOf(st, kind) == CHOOSE i \in DOMAIN st : st[i].kind = kind
LimiterKinds == {"ConcurrencyLimit", "AdaptiveConcurrencyLimit"}
LimiterIndex(st) == CHOOSE i \in DOMAIN st : st[i].kind \in LimiterKinds

\* adaptive controller: the limit starts at 1 and never passes MAX_LIMIT
MAX_LIMIT == 200
InitialLimit(l) == IF l.adaptive THEN 1 ELSE l.n

Max(a, b) == IF a >= b THEN a ELSE b
\* decrease: max(1, floor(current_limit * decrease_ratio)), ratio 0.9
Decrease(cur) == Max(1, (cur * 9) \div 10)

\* the controller's decision on one response: `overload` is a timeout or a
\* retriable error, `slow` an RTT above the threshold, `inflight` the number
\* of requests in flight when the response arrived
Adjust(cur, overload, slow, inflight) ==
    IF overload \/ slow THEN Decrease(cur)
    ELSE IF inflight >= cur /\ cur < MAX_LIMIT THEN cur + 1
    ELSE cur

Requests == 1 .. MaxRequests
Outcomes == {"ok", "retriable", "fatal", "timeout"}

NewRequest ==
    [pc |-> "new", pos |-> 0, attempts |-> 0, permit |-> FALSE,
     acquired |-> 0, entered |-> <<>>]

InFlight == Cardinality({ r \in DOMAIN req : req[r].pc = "inflight" })

\* per-sink configs the stacks are built from
StackConfigs ==
    { [EmptyConfig EXCEPT !.concurrency = c, !.rate_limit_num = Some(n),
                          !.retry_attempts = Some(a)] :
        c \in {ConcurrencyNone, Adaptive, Fixed(1), Fixed(2)},
        n \in {1, 2}, a \in {0, 1} }

(***************************************************************************)
(* Spec: build a stack from the resolved settings, send requests through   *)
(***************************************************************************)
Init ==
    /\ doc = NoDoc
    /\ defaults = TowerRequestConfigDefault
    /\ parsed \in { Ok(c) : c \in StackConfigs }
    /\ effective = ConcurrencyNone
    /\ warnings = 0
    /\ settings = NoSettings
    /\ ser = NoDoc
    /\ reparsed = ErrOf(EmptyConfig)
    /\ cpc = "parsed"
    /\ SvcIdle
    /\ MetaIdle

Built(how, st) ==
    /\ builder' = how
    /\ stack' = st
    /\ req' = [r \in Requests |-> NewRequest]
    /\ rate' = st[IndexOf(st, "RateLimit")].n
    /\ permits' = 0
    /\ limit' = InitialLimit(st[LimiterIndex(st)])
    /\ observed' = 0

\* cfg.unwrap_with(&defaults).service(retry_logic, service)
BuildService ==
    /\ builder = "none"
    /\ settings' = unwrap_with(parsed.val, defaults)
    /\ Built("service", service(settings'))
    /\ cpc' = "resolved"
    /\ UNCHANGED <<doc, defaults, parsed, effective, warnings, ser, reparsed>>
    /\ UNCHANGED metaVars

\* ServiceBuilder::new().settings(cfg.unwrap_with(&defaults), retry_logic)
\*     .service(inner)
BuildLayer ==
    /\ builder = "none"
    /\ settings' = unwrap_with(parsed.val, defaults)
    /\ Built("layer", layer(settings'))
    /\ cpc' = "resolved"
    /\ UNCHANGED <<doc, defaults, parsed, effective, warnings, ser, reparsed>>
    /\ UNCHANGED metaVars

At(r, kind) ==
    /\ builder # "none"
    /\ req[r].pc = "at"
    /\ stack[req[r].pos].kind = kind

\* the request leaves layer pos inwards: the next layer, or the inner service
Inwards(q) ==
    IF q.pos = Len(stack)
    THEN [q EXCEPT !.pc = "inflight"]
    ELSE [q EXCEPT !.pos = q.pos + 1]

Enter(q) ==
    IF q.attempts = 0
    THEN [q EXCEPT !.entered = Append(q.entered, stack[q.pos].kind)]
    ELSE q

\* the caller hands a request to the outermost layer
Submit(r) ==
    /\ builder # "none"
    /\ req[r].pc = "new"
    /\ req' = [req EXCEPT ![r] = [req[r] EXCEPT !.pc = "at", !.pos = 1]]
    /\ UNCHANGED <<builder, stack, rate, permits, limit, observed>>
    /\ UNCHANGED <<cfgVars, metaVars>>

\* RateLimit: a request passes while the window has requests left
EnterRateLimit(r) ==
    /\ At(r, "RateLimit")
    /\ rate > 0
    /\ rate' = rate - 1
    /\ req' = [req EXCEPT ![r] = Inwards(Enter(req[r]))]
    /\ UNCHANGED <<builder, stack, permits, limit, observed>>
    /\ UNCHANGED <<cfgVars, metaVars>>

\* RateLimit: the window of rate_limit_duration ends, a new one starts
RateLimitWindow ==
    /\ builder # "none"
    /\ rate < stack[IndexOf(stack, "RateLimit")].n
    /\ rate' = stack[IndexOf(stack, "RateLimit")].n
    /\ UNCHANGED <<builder, stack, req, permits, limit, observed>>
    /\ UNCHANGED <<cfgVars, metaVars>>

\* Retry: keeps a clone of the request and calls the inner service
EnterRetry(r) ==
    /\ At(r, "Retry")
    /\ req' = [req EXCEPT ![r] = Inwards(Enter(req[r]))]
    /\ UNCHANGED <<builder, stack, rate, permits, limit, observed>>
    /\ UNCHANGED <<cfgVars, metaVars>>

\* ConcurrencyLimit / AdaptiveConcurrencyLimit: take a permit when one is free
AcquirePermit(r) ==
    /\ \/ At(r, "ConcurrencyLimit")
       \/ At(r, "AdaptiveConcurrencyLimit")
    /\ permits < limit
    /\ permits' = permits + 1
    /\ req' = [req EXCEPT ![r] =
                Inwards([Enter(req[r]) EXCEPT !.permit = TRUE,
                                              !.acquired = @ + 1])]
    /\ UNCHANGED <<builder, stack, rate, limit, observed>>
    /\ UNCHANGED <<cfgVars, metaVars>>

\* Timeout: start the attempt's timer and call the inner service
EnterTimeout(r) ==
    /\ At(r, "Timeout")
    /\ req' = [req EXCEPT ![r] = Inwards(Enter(req[r]))]
    /\ UNCHANGED <<builder, stack, rate, permits, limit, observed>>
    /\ UNCHANGED <<cfgVars, metaVars>>

\* the inner service answers, or the timer fires. The response passes the
\* layers outwards in one step: a limiter inside Retry gives its permit back
\* on every response, one outside Retry only when the request is finished;
\* Retry starts a backoff when the outcome is retriable and attempts remain.
Respond(r, outcome, slow) ==
    /\ builder # "none"
    /\ req[r].pc = "inflight"
    /\ LET retryAt == IndexOf(stack, "Retry")
           limitAt == LimiterIndex(stack)
           retrying == /\ outcome \in {"retriable", "timeout"}
                       /\ req[r].attempts < stack[retryAt].n
           release == limitAt > retryAt \/ ~retrying
           seen == limitAt > retryAt \/ ~retrying
       IN
       /\ req' = [req EXCEPT ![r] =
                    [req[r] EXCEPT
                        !.pc = IF retrying THEN "backoff" ELSE "done",
                        !.pos = retryAt,
                        !.permit = IF release THEN FALSE ELSE @]]
       /\ permits' = IF release THEN permits - 1 ELSE permits
       /\ limit' = IF stack[limitAt].adaptive
                   THEN Adjust(limit, outcome \in {"retriable", "timeout"},
                               slow, InFlight)
                   ELSE limit
       /\ observed' = IF seen THEN observed + 1 ELSE observed
    /\ UNCHANGED <<builder, stack, rate>>
    /\ UNCHANGED <<cfgVars, metaVars>>

\* Retry: the backoff sleep ends, the next attempt enters the layer below
BackoffElapsed(r) ==
    /\ builder # "none"
    /\ req[r].pc = "backoff"
    /\ req' = [req EXCEPT ![r] =
                [req[r] EXCEPT !.pc = "at", !.pos = @ + 1,
                               !.attempts = @ + 1]]
    /\ UNCHANGED <<builder, stack, rate, permits, limit, observed>>
    /\ UNCHANGED <<cfgVars, metaVars>>

Next ==
    \/ BuildService
    \/ BuildLayer
    \/ \E r \in Requests : Submit(r)
    \/ \E r \in Requests : EnterRateLimit(r)
    \/ RateLimitWindow
    \/ \E r \in Requests : EnterRetry(r)
    \/ \E r \in Requests : AcquirePermit(r)
    \/ \E r \in Requests : EnterTimeout(r)
    \/ \E r \in Requests, o \in Outcomes, slow \in BOOLEAN : Respond(r, o, slow)
    \/ \E r \in Requests : BackoffElapsed(r)

Spec == Init /\ [][Next]_vars

(***************************************************************************)
(* Properties of the stacks                                                *)
(***************************************************************************)
SpecifiedOrder == <<"RateLimit", "Retry", "AdaptiveConcurrencyLimit", "Timeout">>

WaitsForRate(r) == At(r, "RateLimit") /\ rate = 0
WaitsForPermit(r) ==
    /\ At(r, "ConcurrencyLimit") \/ At(r, "AdaptiveConcurrencyLimit")
    /\ permits >= limit

\* C1: in every assembled stack a request passes RateLimit, then Retry, then
\* the concurrency limiter (AdaptiveConcurrencyLimit), then Timeout, and only
\* then reaches the inner service.
C1_StackOrder ==
    \A r \in DOMAIN req :
        req[r].pc \in {"inflight", "backoff", "done"} =>
            req[r].entered = SpecifiedOrder

\* C2: in every assembled stack a request holds a permit only while it awaits
\* the inner service's response: never while it waits for the rate-limit
\* window, sleeps in a retry backoff or waits for a permit; every attempt
\* acquires a permit of its own.
C2_PermitScope ==
    \A r \in DOMAIN req :
        /\ req[r].permit =>
            /\ ~WaitsForRate(r)
            /\ ~WaitsForPermit(r)
            /\ req[r].pc # "backoff"
        /\ req[r].pc = "inflight" =>
            /\ req[r].permit
            /\ req[r].acquired = req[r].attempts + 1

\* C10: in every assembled stack a resolved concurrency of Some(n) keeps the
\* requests in flight at the inner service within n, and a resolved
\* concurrency of None puts the limit under the adaptive controller: it is 1
\* until a response has been observed.
C10_Limit ==
    builder # "none" =>
        /\ settings.concurrency # None => InFlight <= settings.concurrency[1]
        /\ settings.concurrency = None =>
            /\ stack[LimiterIndex(stack)].adaptive
            /\ observed = 0 => limit = 1

\* what holds of the stack built by TowerRequestSettings::service alone
ServiceStackOrder == builder = "service" => C1_StackOrder
ServicePermitScope == builder = "service" => C2_PermitScope
ServiceLimit == builder = "service" => C10_Limit

(***************************************************************************)
(* Properties of the configuration run                                     *)
(***************************************************************************)
\* what a config's two concurrency fields amount to, stated from the claim:
\* `concurrency` when set, else `in_flight_limit` when set, else unset
EffectiveOf(c) ==
    IF c.concurrency # ConcurrencyNone THEN c.concurrency
    ELSE IF c.in_flight_limit # ConcurrencyNone THEN c.in_flight_limit
    ELSE ConcurrencyNone

\* the value the resolution takes: the sink's, or the default's when unset
TakenConcurrency ==
    IF EffectiveOf(parsed.val) = ConcurrencyNone
    THEN EffectiveOf(defaults) ELSE EffectiveOf(parsed.val)

ResolutionRule ==
    /\ TakenConcurrency.tag = "None" => settings.concurrency = Some(1024)
    /\ TakenConcurrency.tag = "Adaptive" => settings.concurrency = None
    /\ TakenConcurrency.tag = "Fixed" =>
            settings.concurrency = Some(TakenConcurrency.n)
    /\ EffectiveOf(parsed.val).tag = "Adaptive" => settings.concurrency = None
    /\ EffectiveOf(parsed.val).tag = "Fixed" =>
            settings.concurrency = Some(EffectiveOf(parsed.val).n)

\* C3 as stated: the resolved concurrency follows the rule sink -> default ->
\* 1024, a set sink value is never overridden, and Some(1024) is produced only
\* when both the sink's and the default's effective values are unset.
C3_Original ==
    cpc = "resolved" =>
        /\ ResolutionRule
        /\ settings.concurrency = Some(1024) =>
                /\ EffectiveOf(parsed.val) = ConcurrencyNone
                /\ EffectiveOf(defaults) = ConcurrencyNone

\* C3 amended: the resolved concurrency follows the rule sink -> default ->
\* 1024, a set sink value is never overridden, and Some(1024) is produced only
\* when both effective values are unset or the value taken is Fixed(1024).
C3_Resolved ==
    cpc = "resolved" =>
        /\ ResolutionRule
        /\ settings.concurrency = Some(1024) =>
                \/ /\ EffectiveOf(parsed.val) = ConcurrencyNone
                   /\ EffectiveOf(defaults) = ConcurrencyNone
                \/ TakenConcurrency = Fixed(1024)

C3_Witness ==
    /\ cpc = "resolved"
    /\ EffectiveOf(parsed.val) = Adaptive
    /\ EffectiveOf(defaults) = Fixed(2)
    /\ settings.concurrency = None

\* C4: concurrency() returns `concurrency` whenever it is set, `in_flight_limit`
\* when only that is set, unset when neither is; it warns exactly when both are
\* set (unwrap_with makes the call on the sink config and on the default one).
C4_Effective ==
    /\ cpc = "queried" =>
        /\ effective = EffectiveOf(parsed.val)
        /\ warnings \in {0, 1}
        /\ warnings = 1 <=> /\ parsed.val.concurrency # ConcurrencyNone
                            /\ parsed.val.in_flight_limit # ConcurrencyNone
    /\ cpc = "resolved" =>
        /\ effective = EffectiveOf(defaults)
        /\ warnings = Cardinality({ i \in {1, 2} :
                LET c == IF i = 1 THEN parsed.val ELSE defaults IN
                /\ c.concurrency # ConcurrencyNone
                /\ c.in_flight_limit # ConcurrencyNone })

C4_Witness ==
    /\ cpc = "queried"
    /\ parsed.val.concurrency = Adaptive
    /\ parsed.val.in_flight_limit = Fixed(10)
    /\ effective = Adaptive
    /\ warnings = 1

\* the tokens the claim says a concurrency value is parsed from
ValidConcurrencyToken(tok) ==
    \/ tok.t = "absent"
    \/ tok.t \in {"i64", "u64"} /\ tok.v >= 1
    \/ tok.t = "str" /\ tok.s = "adaptive"

ExpectedConcurrency(tok) ==
    CASE tok.t = "absent" -> ConcurrencyNone
      [] tok.t \in {"i64", "u64"} -> Fixed(tok.v)
      [] OTHER -> Adaptive

ParsesAsClaimed(d, r) ==
    /\ r.ok => \A k \in ConcKeys :
                /\ ValidConcurrencyToken(d[k])
                /\ r.val[k] = ExpectedConcurrency(d[k])
                /\ r.val[k] # Fixed(0)
    /\ (/\ \A k \in ConcKeys : ValidConcurrencyToken(d[k])
        /\ \A k \in NumKeys : d[k].t = "absent" \/ d[k].v >= 0) => r.ok

\* C5: a concurrency value parses exactly from a positive integer n (giving
\* Fixed(n)), from "adaptive" (giving Adaptive) and from an absent key (giving
\* unset); every other token fails the parse, and no parse yields Fixed(0).
C5_Parse ==
    /\ cpc # "start" => ParsesAsClaimed(doc, parsed)
    /\ cpc = "reparsed" => ParsesAsClaimed(ser, reparsed)

C5_Witness ==
    /\ cpc = "parsed"
    /\ doc["concurrency"] = I64(10)
    /\ doc["in_flight_limit"] = Str("adaptive")
    /\ parsed.ok
    /\ parsed.val.concurrency = Fixed(10)
    /\ parsed.val.in_flight_limit = Adaptive

\* C6: serializing a valid config and parsing the result gives the identical
\* config.
C6_RoundTrip ==
    cpc = "reparsed" => reparsed.ok /\ reparsed.val = parsed.val

\* what the claim says one field resolves to
ResolvedAsClaimed(field, hard) ==
    IF parsed.val[field] # None THEN parsed.val[field][1]
    ELSE IF defaults[field] # None THEN defaults[field][1]
    ELSE hard

\* C7: each numeric field resolves to the sink's value when set, else the
\* default config's value when set, else 60 s, 1 s, i64::MAX, isize::MAX,
\* 3600 s, 1 s.
C7_Fallback ==
    cpc = "resolved" =>
        /\ settings.timeout = from_secs(ResolvedAsClaimed("timeout_secs", 60))
        /\ settings.rate_limit_duration =
                from_secs(ResolvedAsClaimed("rate_limit_duration_secs", 1))
        /\ settings.rate_limit_num = ResolvedAsClaimed("rate_limit_num", I64_MAX)
        /\ settings.retry_attempts = ResolvedAsClaimed("retry_attempts", ISIZE_MAX)
        /\ settings.retry_max_duration_secs =
                from_secs(ResolvedAsClaimed("retry_max_duration_secs", 3600))
        /\ settings.retry_initial_backoff_secs =
                from_secs(ResolvedAsClaimed("retry_initial_backoff_secs", 1))

C7_Witness ==
    /\ cpc = "resolved"
    /\ parsed.val.timeout_secs = Some(2)
    /\ defaults.timeout_secs = Some(60)
    /\ defaults.retry_attempts = Some(3)
    /\ parsed.val.retry_attempts = None
    /\ settings.timeout.secs = 2
    /\ settings.retry_attempts = 3

DurationKeys == {"timeout_secs", "rate_limit_duration_secs",
                 "retry_max_duration_secs", "retry_initial_backoff_secs"}

\* C8: every settings value produced has its four durations > 0, initial
\* backoff <= max duration and rate_limit_num >= 1, and a document with a
\* non-positive duration is rejected by the parse.
C8_Invariants ==
    /\ cpc = "resolved" =>
        /\ settings.timeout.secs > 0
        /\ settings.rate_limit_duration.secs > 0
        /\ settings.retry_max_duration_secs.secs > 0
        /\ settings.retry_initial_backoff_secs.secs > 0
        /\ settings.retry_initial_backoff_secs.secs
                <= settings.retry_max_duration_secs.secs
        /\ settings.rate_limit_num >= 1
    /\ (cpc # "start" /\ \E k \in DurationKeys :
                            doc[k].t # "absent" /\ doc[k].v <= 0)
            => ~parsed.ok
(***************************************************************************)
(* metadata.rs: EventMetadata. A finalizer is named by the number under    *)
(* which `statuses` keeps what it received; EventFinalizers is the list of *)
(* the metadata's finalizers.                                              *)
(***************************************************************************)
ApiKeys == {"K1", "K2"}
EventStatuses == {"Delivered", "Errored"}

\* a variant of the key rule of merge in which a key of `other` wins
MergeKeyOtherWins(selfKey, otherKey) ==
    IF otherKey # None THEN otherKey ELSE selfKey

\* EventMetadata::merge, the datadog_api_key part
MergeKey(selfKey, otherKey) ==
    IF selfKey = None THEN otherKey ELSE selfKey

\* EventFinalizers::new, add, merge
FinalizersNew(f) == <<f>>
FinalizersAdd(fs, f) == Append(fs, f)
FinalizersMerge(fs, other) == fs \o other

\* EventFinalizers::update_status: every finalizer of the list receives it
Broadcast(fs, status) ==
    [f \in DOMAIN statuses |->
        IF \E i \in DOMAIN fs : fs[i] = f
        THEN Append(statuses[f], status) ELSE statuses[f]]

\* the first key that is set in a sequence of optional keys
RECURSIVE FirstSome(_)
FirstSome(ks) ==
    IF ks = <<>> THEN None
    ELSE IF Head(ks) # None THEN Head(ks) ELSE FirstSome(Tail(ks))

Did(op, other, status) ==
    lastOp' = [op |-> op, before |-> meta.datadog_api_key, other |-> other,
               n |-> lastOp.n + 1, status |-> status,
               fins |-> meta.finalizers, sts |-> statuses]

\* a variant of with_finalizer that keeps the finalizers already held
with_finalizer_keeps_old(self, finalizer) ==
    [self EXCEPT !.finalizers = FinalizersAdd(@, finalizer)]

\* EventMetadata::with_finalizer
with_finalizer(self, finalizer) ==
    [self EXCEPT !.finalizers = FinalizersNew(finalizer)]

\* EventMetadata::add_finalizer
add_finalizer(self, finalizer) ==
    [self EXCEPT !.finalizers = FinalizersAdd(@, finalizer)]

\* EventMetadata::merge
merge(self, other) ==
    [datadog_api_key |-> MergeKey(self.datadog_api_key, other.datadog_api_key),
     finalizers |-> FinalizersMerge(self.finalizers, other.finalizers)]

InitMeta ==
    /\ CfgIdle
    /\ SvcIdle
    /\ meta = [datadog_api_key |-> None, finalizers |-> <<>>]
    /\ keyOrder = <<None>>
    /\ lastOp = NoOp
    /\ statuses = <<>>

\* set_datadog_api_key (the getset setter)
SetDatadogApiKey(k) ==
    /\ lastOp.n < MaxOps
    /\ meta' = [meta EXCEPT !.datadog_api_key = k]
    /\ keyOrder' = <<k>>
    /\ Did("set_datadog_api_key", k, "")
    /\ UNCHANGED statuses
    /\ UNCHANGED <<cfgVars, svcVars>>

\* EventMetadata::add_finalizer, with a finalizer just created
AddFinalizer ==
    /\ lastOp.n < MaxOps
    /\ LET f == Len(statuses) + 1 IN
       /\ statuses' = Append(statuses, <<>>)
       /\ meta' = add_finalizer(meta, f)
    /\ Did("add_finalizer", None, "")
    /\ UNCHANGED keyOrder
    /\ UNCHANGED <<cfgVars, svcVars>>

\* EventMetadata::with_finalizer, with a finalizer just created
WithFinalizer ==
    /\ lastOp.n < MaxOps
    /\ LET f == Len(statuses) + 1 IN
       /\ statuses' = Append(statuses, <<>>)
       /\ meta' = with_finalizer(meta, f)
    /\ Did("with_finalizer", None, "")
    /\ UNCHANGED keyOrder
    /\ UNCHANGED <<cfgVars, svcVars>>

\* EventMetadata::merge(other): `other` has key k and nf finalizers of its own
Merge(k, nf) ==
    /\ lastOp.n < MaxOps
    /\ LET fs == [i \in 1 .. nf |-> Len(statuses) + i] IN
       /\ statuses' = statuses \o [i \in 1 .. nf |-> <<>>]
       /\ meta' = merge(meta, [datadog_api_key |-> k, finalizers |-> fs])
    /\ keyOrder' = Append(keyOrder, k)
    /\ Did("merge", k, "")
    /\ UNCHANGED <<cfgVars, svcVars>>

\* EventMetadata::update_status
UpdateStatus(status) ==
    /\ lastOp.n < MaxOps
    /\ statuses' = Broadcast(meta.finalizers, status)
    /\ Did("update_status", None, status)
    /\ UNCHANGED <<meta, keyOrder>>
    /\ UNCHANGED <<cfgVars, svcVars>>

\* EventMetadata::update_sources
UpdateSources ==
    /\ lastOp.n < MaxOps
    /\ Did("update_sources", None, "")
    /\ UNCHANGED <<meta, keyOrder, statuses>>
    /\ UNCHANGED <<cfgVars, svcVars>>

NextMeta ==
    \/ \E k \in {None} \cup { Some(a) : a \in ApiKeys } : SetDatadogApiKey(k)
    \/ AddFinalizer
    \/ WithFinalizer
    \/ \E k \in {None} \cup { Some(a) : a \in ApiKeys }, nf \in {0, 1} : Merge(k, nf)
    \/ \E st \in EventStatuses : UpdateStatus(st)
    \/ UpdateSources

SpecMeta == InitMeta /\ [][NextMeta]_vars

(***************************************************************************)
(* Properties of the metadata                                              *)
(***************************************************************************)
\* C9: merge keeps self's API key when it has one and takes other's
\* otherwise, so after any merges the key is that of the first metadata in
\* merge order that had one; add_finalizer, with_finalizer, update_status and
\* update_sources leave the key alone.
C9_ApiKey ==
    /\ lastOp.op = "merge" =>
        meta.datadog_api_key =
            (IF lastOp.before # None THEN lastOp.before ELSE lastOp.other)
    /\ lastOp.op \in {"add_finalizer", "with_finalizer", "update_status",
                      "update_sources"} =>
        meta.datadog_api_key = lastOp.before
    /\ keyOrder # <<>> => meta.datadog_api_key = FirstSome(keyOrder)

C9_Witness ==
    /\ lastOp.op = "merge"
    /\ Len(keyOrder) = 4
    /\ keyOrder[1] = None
    /\ keyOrder[2] = None
    /\ keyOrder[3] = Some("K1")
    /\ keyOrder[4] = Some("K2")
    /\ meta.datadog_api_key = Some("K1")
\* the finalizers created after `made` had been, in creation order
CreatedSince(made) == [i \in 1 .. (Len(statuses) - made) |-> made + i]

Held(fs, f) == \E i \in DOMAIN fs : fs[i] = f

\* C11: add_finalizer and merge append to the finalizer list what they are
\* given, in order, so that nothing is lost or duplicated; update_status(s)
\* delivers s to every entry of the list and to no other finalizer;
\* with_finalizer replaces the list by the one given finalizer, so what was
\* held before receives no later status through this metadata.
C11_Finalizers ==
    /\ lastOp.op \in {"add_finalizer", "merge"} =>
        /\ meta.finalizers = lastOp.fins \o CreatedSince(Len(lastOp.sts))
        /\ lastOp.op = "add_finalizer" =>
                Len(meta.finalizers) = Len(lastOp.fins) + 1
    /\ lastOp.op = "with_finalizer" =>
        meta.finalizers = <<Len(lastOp.sts) + 1>>
    /\ lastOp.op \in {"set_datadog_api_key", "update_status", "update_sources"} =>
        meta.finalizers = lastOp.fins
    /\ lastOp.op = "update_status" =>
        \A f \in DOMAIN statuses :
            statuses[f] = IF Held(meta.finalizers, f)
                          THEN Append(lastOp.sts[f], lastOp.status)
                          ELSE lastOp.sts[f]
    /\ lastOp.op \notin {"none", "update_status"} =>
        \A f \in DOMAIN lastOp.sts : statuses[f] = lastOp.sts[f]
    \* over the whole run: the list holds, once each and in creation order,
    \* every finalizer created since its first entry
    /\ \A i, j \in DOMAIN meta.finalizers :
            i < j => meta.finalizers[i] < meta.finalizers[j]
    /\ meta.finalizers # <<>> =>
            meta.finalizers = CreatedSince(meta.finalizers[1] - 1)

C11_Witness ==
    /\ lastOp.op = "update_status"
    /\ lastOp.status = "Delivered"
    /\ meta.finalizers = <<2, 3>>
    /\ statuses = << <<>>, <<"Delivered">>, <<"Delivered">> >>
====
